---- MODULE Spec2Model ----
(***************************************************************************)
(* A model of the Go AI agent: the turn loop of Agent.Run with its tool    *)
(* dispatch (pkg/agent/agent.go), and the tools edit_file, read_file,      *)
(* list_files and ripgrep_search (pkg/tools/tools.go).                     *)
(*                                                                         *)
(* File contents and search patterns are sequences of one-character        *)
(* strings; every other text is kept as the format string of the source    *)
(* together with its arguments.                                            *)
(***************************************************************************)
EXTENDS Integers, Sequences, FiniteSets, TLC

VARIABLES
    conversation,   \* Run: conversation []anthropic.MessageParam
    readUserInput,  \* Run: readUserInput
    pc,             \* Run: position in the loop: "loop", "infer", "blocks", "returned"
    message,        \* Run: message.Content of the response being processed
    idx,            \* Run: position of the range loop over message.Content
    toolResults,    \* Run: toolResults
    runErr,         \* Run: the returned error, Nil while none
    file,           \* the environment: content of the one file, FilePath
    call,           \* the last call of a tool function: its input, outcome and effect
    lastStep        \* the last step taken: what it was and what it met

vars == <<conversation, readUserInput, pc, message, idx, toolResults, runErr,
          file, call, lastStep>>

----------------------------------------------------------------------------
(* Bounds of the model *)

\* Longest file content.
MaxLen == 3
\* Longest old_str / new_str.
MaxPat == 2
\* Most inference calls in a run.
MaxCalls == 2
\* Most content blocks the model returns in a run, over all its messages.
MaxBlocks == 3
\* Largest exit status of the search process (the least is -1: killed by a signal).
MaxExit == 3

Chars == {"a", "b"}
FilePath == "f"
MissingPath == "nofile"

RECURSIVE SeqsUpTo(_, _)
SeqsUpTo(S, n) ==
    IF n = 0 THEN {<<>>}
    ELSE LET shorter == SeqsUpTo(S, n - 1)
         IN  shorter \cup {Append(s, x) : s \in {t \in shorter : Len(t) = n - 1}, x \in S}

Min(a, b) == IF a < b THEN a ELSE b

----------------------------------------------------------------------------
(* Strings: strings.Index and strings.Replace of the Go standard library,  *)
(* as EditFile uses them.                                                  *)

Strings(n) == SeqsUpTo(Chars, n)

\* p occurs in s at position i (1-based).
OccursAt(s, p, i) ==
    /\ i >= 1
    /\ i + Len(p) - 1 <= Len(s)
    /\ SubSeq(s, i, i + Len(p) - 1) = p

\* strings.Index, 1-based; 0 when p does not occur (Go: 0-based and -1).
Index(s, p) ==
    IF \E i \in 1..(Len(s) + 1) : OccursAt(s, p, i)
    THEN CHOOSE i \in 1..(Len(s) + 1) :
            /\ OccursAt(s, p, i)
            /\ \A j \in 1..(i - 1) : ~OccursAt(s, p, j)
    ELSE 0

\* strings.Contains.
Contains(s, p) == Index(s, p) # 0

\* strings.Replace(s, old, new, n) for n >= 0: the first n non-overlapping
\* occurrences of old replaced by new; an empty old matches before each character.
RECURSIVE Replace(_, _, _, _)
Replace(s, old, new, n) ==
    IF n = 0 \/ old = new THEN s
    ELSE IF old = <<>>
         THEN new \o (IF s = <<>> THEN <<>>
                      ELSE <<Head(s)>> \o Replace(Tail(s), old, new, n - 1))
         ELSE LET i == Index(s, old)
              IN  IF i = 0 THEN s
                  ELSE SubSeq(s, 1, i - 1) \o new
                         \o Replace(SubSeq(s, i + Len(old), Len(s)), old, new, n - 1)

----------------------------------------------------------------------------
(* Tool inputs and results                                                 *)

\* A json.RawMessage as the tools decode it: valid is FALSE for a payload that
\* json.Unmarshal rejects; a field the payload leaves out has its zero value.
RawMessage(valid, path, old, new, query, ic, mc) ==
    [valid |-> valid, path |-> path, old_str |-> old, new_str |-> new,
     query |-> query, ignore_case |-> ic, max_count |-> mc]

Malformed == RawMessage(FALSE, "", <<>>, <<>>, "", FALSE, 0)
EmptyObject == RawMessage(TRUE, "", <<>>, <<>>, "", FALSE, 0)

\* An error value: the format string of the fmt.Errorf that made it, with the
\* path, the string, the wrapped error's text and the exit code it formats
\* (those it does not format are left empty). Nil is Go's nil error.
Error(msg, path, str, cause, code) ==
    [msg |-> msg, path |-> path, str |-> str, cause |-> cause, code |-> code]

Nil == Error("", "", <<>>, "", 0)

\* A Go string of fixed text, as a tool returns it.
Text(t) == <<t>>

\* The (string, error) pair a tool function returns, with the file it leaves.
Returned(response, err, f) == [response |-> response, err |-> err, file |-> f]

\* What the operating system does to the calls of one tool call:
\*   rd: os.ReadFile of an existing file succeeds;
\*   wr: os.WriteFile succeeds ("ok"), fails opening the file ("open"), or
\*       fails after the file was truncated and n bytes were written ("short").
FsEnv(rd, wr, n) == [rd |-> rd, wr |-> wr, n |-> n]

FsEnvs == {FsEnv(FALSE, "ok", 0), FsEnv(TRUE, "ok", 0), FsEnv(TRUE, "open", 0)}
            \cup {FsEnv(TRUE, "short", n) : n \in 0..(MaxLen + MaxPat)}

\* os.ReadFile(path): only FilePath exists.
OsReadFile(path, f, env) ==
    IF path = FilePath /\ env.rd
    THEN [content |-> f, err |-> Nil]
    ELSE [content |-> <<>>, err |-> Error("open %s: %s", path, <<>>, "cannot read", 0)]

\* os.WriteFile(path, data, 0644): opens with O_TRUNC, writes, closes; a failure
\* after the open leaves the bytes written so far.
OsWriteFile(path, data, f, env) ==
    CASE env.wr = "ok"    -> [file |-> data, err |-> Nil]
      [] env.wr = "open"  -> [file |-> f,
                              err |-> Error("open %s: %s", path, <<>>, "cannot write", 0)]
      [] env.wr = "short" -> [file |-> SubSeq(data, 1, Min(env.n, Len(data))),
                              err |-> Error("write %s: %s", path, <<>>, "failed", 0)]

\* tools.ReadFile
ReadFile(input, f, env) ==
    IF ~input.valid
    THEN Returned(<<>>, Error("invalid input format for read_file: %w", "", <<>>, "json", 0), f)
    ELSE LET r == OsReadFile(input.path, f, env)
         IN  IF r.err # Nil
             THEN Returned(<<>>, Error("failed to read file '%s': %w",
                                       input.path, <<>>, r.err.msg, 0), f)
             ELSE Returned(r.content, Nil, f)

\* EditFile without the check that the replacement changed the content.
EditFileUnchecked(input, f, env) ==
    IF ~input.valid
    THEN Returned(<<>>, Error("invalid input format for edit_file: %w", "", <<>>, "json", 0), f)
    ELSE LET r == OsReadFile(input.path, f, env)
         IN  IF r.err # Nil
             THEN Returned(<<>>, Error("failed to read file '%s' for editing: %w",
                                       input.path, <<>>, r.err.msg, 0), f)
             ELSE LET newContentStr == Replace(r.content, input.old_str, input.new_str, 1)
                      w == OsWriteFile(input.path, newContentStr, f, env)
                  IN  IF w.err # Nil
                      THEN Returned(<<>>, Error("failed to write changes to file '%s': %w",
                                                input.path, <<>>, w.err.msg, 0), w.file)
                      ELSE Returned(Text("File edited successfully"), Nil, w.file)

\* tools.EditFile
EditFile(input, f, env) ==
    IF ~input.valid
    THEN Returned(<<>>, Error("invalid input format for edit_file: %w", "", <<>>, "json", 0), f)
    ELSE LET r == OsReadFile(input.path, f, env)
         IN  IF r.err # Nil
             THEN Returned(<<>>, Error("failed to read file '%s' for editing: %w",
                                       input.path, <<>>, r.err.msg, 0), f)
             ELSE LET contentStr == r.content
                      newContentStr == Replace(contentStr, input.old_str, input.new_str, 1)
                  IN  IF newContentStr = contentStr
                      THEN Returned(<<>>, Error("string '%s' not found in file '%s'",
                                                input.path, input.old_str, "", 0), f)
                      ELSE LET w == OsWriteFile(input.path, newContentStr, f, env)
                           IN  IF w.err # Nil
                               THEN Returned(<<>>, Error("failed to write changes to file '%s': %w",
                                                         input.path, <<>>, w.err.msg, 0), w.file)
                               ELSE Returned(Text("File edited successfully"), Nil, w.file)


\* tools.ListFiles: filepath.Walk over a tree that holds the one file FilePath in ".".
ListFiles(input, f) ==
    IF ~input.valid
    THEN Returned(<<>>, Error("invalid input format for list_files: %w", "", <<>>, "json", 0), f)
    ELSE LET dir == IF input.path # "" THEN input.path ELSE "."
         IN  CASE dir = "."      -> Returned(Text("[\"f\"]"), Nil, f)
               [] dir = FilePath -> Returned(Text("null"), Nil, f)
               [] OTHER          -> Returned(<<>>, Error("failed to list files in '%s': %w",
                                                         dir, <<>>, "lstat: no such file", 0), f)

\* One command-line argument: its text, with the number a %d formats.
Arg(text, n) == [text |-> text, n |-> n]

\* What the search process does: whether it started, its exit status
\* (0: cmd.Output returns no error), its standard output and standard error.
Proc(started, code, out, stderr) ==
    [started |-> started, code |-> code, out |-> out, stderr |-> stderr]

NoProc == Proc(FALSE, 0, <<>>, "")
ProcOuts == {<<>>, <<"f:1:ab">>}
ProcStderrs == {"", "regex parse error"}
Procs == {NoProc} \cup {Proc(TRUE, c, o, e) : c \in (-1)..MaxExit, o \in ProcOuts, e \in ProcStderrs}

\* The exit status ripgrep gives when nothing matched.
NoMatchExit == 1

\* tools.RipGrepSearch, lines 168-180: the arguments of the process.
RipGrepArgs(rgInput) ==
    <<Arg("--no-heading", 0), Arg("--with-filename", 0), Arg("--line-number", 0)>>
    \o (IF rgInput.ignore_case THEN <<Arg("--ignore-case", 0)>> ELSE <<>>)
    \o (IF rgInput.max_count > 0 THEN <<Arg("--max-count=%d", rgInput.max_count)>> ELSE <<>>)
    \o <<Arg("--", 0), Arg(rgInput.query, 0)>>
    \o (IF rgInput.path # "" THEN <<Arg(rgInput.path, 0)>> ELSE <<Arg(".", 0)>>)

\* RipGrepSearch taking every exit error for "no matches".
RipGrepSearchAnyExit(input, f, proc) ==
    IF ~input.valid
    THEN Returned(<<>>, Error("invalid input format for ripgrep_search: %w", "", <<>>, "json", 0), f)
    ELSE IF ~proc.started
         THEN Returned(<<>>, Error("failed to execute ripgrep: %w", "", <<>>, "exec: not started", 0), f)
         ELSE IF proc.code # 0 \/ Len(proc.out) = 0
              THEN Returned(Text("No matches found."), Nil, f)
              ELSE Returned(proc.out, Nil, f)

\* tools.RipGrepSearch
RipGrepSearch(input, f, proc) ==
    IF ~input.valid
    THEN Returned(<<>>, Error("invalid input format for ripgrep_search: %w", "", <<>>, "json", 0), f)
    ELSE IF ~proc.started
         THEN Returned(<<>>, Error("failed to execute ripgrep: %w", "", <<>>, "exec: not started", 0), f)
         ELSE IF proc.code # 0
              THEN IF proc.code = NoMatchExit
                   THEN Returned(Text("No matches found."), Nil, f)
                   ELSE IF proc.stderr # ""
                        THEN Returned(<<>>, Error("ripgrep failed with exit code %d: %s",
                                                  "", <<>>, proc.stderr, proc.code), f)
                        ELSE Returned(<<>>, Error("ripgrep failed with exit code %d",
                                                  "", <<>>, "", proc.code), f)
              ELSE IF Len(proc.out) = 0
                   THEN Returned(Text("No matches found."), Nil, f)
                   ELSE Returned(proc.out, Nil, f)

\* The environment of one tool call: the file system's part and the process's.
Env(fs, proc) == [fs |-> fs, proc |-> proc]
DefaultEnv == Env(FsEnv(TRUE, "ok", 0), NoProc)

\* GetTools(): the names of the registered tools, in order.
GetTools == <<"read_file", "list_files", "edit_file", "ripgrep_search">>

\* ToolDefinition.Function of the tool registered under name.
ToolFunction(name, input, f, env) ==
    CASE name = "read_file"      -> ReadFile(input, f, env.fs)
      [] name = "list_files"     -> ListFiles(input, f)
      [] name = "edit_file"      -> EditFile(input, f, env.fs)
      [] name = "ripgrep_search" -> RipGrepSearch(input, f, env.proc)

\* The environments that make a difference to the tool: a write fails only
\* where there is one, and a short write writes at most the bytes there are.
ToolEnvs(name, input, f) ==
    CASE name = "read_file"      -> {Env(FsEnv(rd, "ok", 0), NoProc) : rd \in BOOLEAN}
      [] name = "edit_file"      ->
            LET new == Replace(f, input.old_str, input.new_str, 1)
                writes == input.valid /\ input.path = FilePath /\ new # f
            IN  {Env(e, NoProc) : e \in {x \in FsEnvs :
                    /\ x.n <= Len(new)
                    /\ x.wr # "ok" => writes}}
      [] name = "ripgrep_search" -> {Env(FsEnv(TRUE, "ok", 0), p) : p \in Procs}
      [] OTHER                   -> {DefaultEnv}

\* The record of one call of a tool function.
Call(name, input, env, before, r) ==
    [tool |-> name, input |-> input, env |-> env, before |-> before,
     args |-> IF name = "ripgrep_search" /\ input.valid THEN RipGrepArgs(input) ELSE <<>>,
     after |-> r.file, response |-> r.response, err |-> r.err]

NoCall == Call("", EmptyObject, DefaultEnv, <<>>, Returned(<<>>, Nil, <<>>))


----------------------------------------------------------------------------
(* Messages and content blocks (anthropic-sdk-go), as Agent.Run builds them *)

NoId == <<0, 0>>

\* The text of a tool result: a tool's response, or the text of an error.
Content(text, err) == [text |-> text, err |-> err]

Block(type, id, name, input, text, content, isError) ==
    [type |-> type, id |-> id, name |-> name, input |-> input, text |-> text,
     content |-> content, is_error |-> isError]

\* anthropic.NewTextBlock
NewTextBlock(text) == Block("text", NoId, "", EmptyObject, text, Content(<<>>, Nil), FALSE)

\* A tool_use block of a model message.
ToolUseBlock(id, name, input) ==
    Block("tool_use", id, name, input, "", Content(<<>>, Nil), FALSE)

\* anthropic.NewToolResultBlock
NewToolResultBlock(id, content, isError) ==
    Block("tool_result", id, "", EmptyObject, "", content, isError)

\* anthropic.NewUserMessage
NewUserMessage(blocks) == [role |-> "user", content |-> blocks]

\* anthropic.Message.ToParam
ToParam(content) == [role |-> "assistant", content |-> content]

\* AppendMessage with the history reset to the new message.
AppendMessageReset(conv, m) == <<m>>

\* append(conversation, m)
AppendMessage(conv, m) == Append(conv, m)

\* AppendResult putting the newest result first.
AppendResultFirst(results, result) == <<result>> \o results

\* append(toolResults, result)
AppendResult(results, result) == Append(results, result)

ToolUses(content) == SelectSeq(content, LAMBDA b : b.type = "tool_use")

RECURSIVE CountBlocks(_)
CountBlocks(conv) ==
    IF conv = <<>> THEN 0
    ELSE (IF Head(conv).role = "assistant" THEN Len(Head(conv).content) ELSE 0)
            + CountBlocks(Tail(conv))

InferenceCalls(conv) == Len(SelectSeq(conv, LAMBDA m : m.role = "assistant"))

----------------------------------------------------------------------------
(* The inputs of a run *)

\* The lines the user may type.
UserLines == {"hello"}

\* getUserMessage (main): a line and true, or "" and false at the end of the input.
UserReads == {[text |-> t, ok |-> TRUE] : t \in UserLines} \cup {[text |-> "", ok |-> FALSE]}

GoodEdit == RawMessage(TRUE, FilePath, <<"a">>, <<"b">>, "", FALSE, 0)
GoodRead == RawMessage(TRUE, FilePath, <<>>, <<>>, "", FALSE, 0)

\* The blocks a model message is made of, before their identifiers are set.
BlockShapes ==
    { NewTextBlock("ok"),
      ToolUseBlock(NoId, "no_such_tool", EmptyObject),
      ToolUseBlock(NoId, "edit_file", GoodEdit),
      ToolUseBlock(NoId, "edit_file", Malformed),
      ToolUseBlock(NoId, "read_file", GoodRead) }

\* Every tool_use block of the n-th model message carries its own identifier.
Stamp(shape, n) ==
    [i \in 1..Len(shape) |->
        IF shape[i].type = "tool_use"
        THEN ToolUseBlock(<<n, i>>, shape[i].name, shape[i].input)
        ELSE shape[i]]

ApiError == Error("POST /v1/messages: %s", "", <<>>, "request failed", 0)

\* a.runInference(ctx, conversation): an error, or the model's next message.
\* It leaves the conversation as it is.
RunInference(conv) ==
    {[content |-> <<>>, err |-> ApiError]}
    \cup {[content |-> Stamp(shape, InferenceCalls(conv) + 1), err |-> Nil] :
            shape \in SeqsUpTo(BlockShapes, MaxBlocks - CountBlocks(conv))}

----------------------------------------------------------------------------
(* Agent.executeTool *)

\* Lines 123-131: the position of the first tool named name, 0 when there is none.
FindTool(name) ==
    IF \E i \in 1..Len(GetTools) : GetTools[i] = name
    THEN CHOOSE i \in 1..Len(GetTools) :
            /\ GetTools[i] = name
            /\ \A j \in 1..(i - 1) : GetTools[j] # name
    ELSE 0

\* ExecuteTool returning a failure's text without the error flag.
ExecuteToolUnflagged(id, name, input, f, env) ==
    IF FindTool(name) = 0
    THEN [block |-> NewToolResultBlock(id, Content(Text("tool not found"), Nil), TRUE),
          called |-> FALSE, call |-> NoCall, file |-> f]
    ELSE LET r == ToolFunction(GetTools[FindTool(name)], input, f, env)
             c == Call(name, input, env, f, r)
         IN  IF r.err # Nil
             THEN [block |-> NewToolResultBlock(id, Content(<<>>, r.err), FALSE),
                   called |-> TRUE, call |-> c, file |-> r.file]
             ELSE [block |-> NewToolResultBlock(id, Content(r.response, Nil), FALSE),
                   called |-> TRUE, call |-> c, file |-> r.file]

\* The tool-result block executeTool returns, with the call of the tool
\* function it made (NoCall when it made none) and the file it leaves.
ExecuteTool(id, name, input, f, env) ==
    IF FindTool(name) = 0
    THEN [block |-> NewToolResultBlock(id, Content(Text("tool not found"), Nil), TRUE),
          called |-> FALSE, call |-> NoCall, file |-> f]
    ELSE LET r == ToolFunction(GetTools[FindTool(name)], input, f, env)
             c == Call(name, input, env, f, r)
         IN  IF r.err # Nil
             THEN [block |-> NewToolResultBlock(id, Content(<<>>, r.err), TRUE),
                   called |-> TRUE, call |-> c, file |-> r.file]
             ELSE [block |-> NewToolResultBlock(id, Content(r.response, Nil), FALSE),
                   called |-> TRUE, call |-> c, file |-> r.file]

----------------------------------------------------------------------------
(* Agent.Run *)

Init ==
    /\ conversation = <<>>
    /\ readUserInput = TRUE
    /\ pc = "loop"
    /\ message = <<>>
    /\ idx = 1
    /\ toolResults = <<>>
    /\ runErr = Nil
    /\ file = <<"a", "b">>
    /\ call = NoCall
    /\ lastStep = "start"

\* OnEndOfInput reporting the end of the input as an error.
OnEndOfInputAsError ==
    /\ pc' = "returned"
    /\ runErr' = Error("error reading input: %w", "", <<>>, "EOF", 0)
    /\ UNCHANGED conversation

\* Lines 85-87: the input has ended; break, and return nil.
OnEndOfInput ==
    /\ pc' = "returned"
    /\ runErr' = Nil
    /\ UNCHANGED conversation

\* Lines 82-91: prompt the user and read a line.
GetUserMessage ==
    /\ pc = "loop"
    /\ readUserInput
    /\ \E in \in UserReads :
        IF ~in.ok
        THEN /\ OnEndOfInput
             /\ lastStep' = "end_of_input"
        ELSE /\ conversation' = AppendMessage(conversation, NewUserMessage(<<NewTextBlock(in.text)>>))
             /\ pc' = "infer"
             /\ runErr' = runErr
             /\ lastStep' = "prompt"
    /\ UNCHANGED <<readUserInput, message, idx, toolResults, file, call>>

\* OnInferenceError trying the inference call again.
OnInferenceErrorRetry(err) ==
    /\ pc' = "infer"
    /\ runErr' = Nil
    /\ lastStep' = "inference_failed"
    /\ UNCHANGED <<conversation, message, idx, toolResults>>

\* Lines 94-96: the inference call failed; return the error.
OnInferenceError(err) ==
    /\ pc' = "returned"
    /\ runErr' = Error("error running inference: %w", "", <<>>, err.msg, 0)
    /\ lastStep' = "inference_failed"
    /\ UNCHANGED <<conversation, message, idx, toolResults>>

\* Lines 93-99: call the model with the conversation and append its message.
Inference ==
    /\ \/ pc = "infer"
       \/ pc = "loop" /\ ~readUserInput
    /\ InferenceCalls(conversation) < MaxCalls
    /\ \E r \in RunInference(conversation) :
        IF r.err # Nil
        THEN OnInferenceError(r.err)
        ELSE /\ conversation' = AppendMessage(conversation, ToParam(r.content))
             /\ message' = r.content
             /\ idx' = 1
             /\ toolResults' = <<>>
             /\ pc' = "blocks"
             /\ runErr' = runErr
             /\ lastStep' = "inference"
    /\ UNCHANGED <<readUserInput, file, call>>

\* Lines 100-109: one round of the loop over message.Content.
ProcessBlock ==
    /\ pc = "blocks"
    /\ idx <= Len(message)
    /\ LET content == message[idx]
       IN  \/ /\ content.type = "text"
              /\ lastStep' = "text"
              /\ UNCHANGED <<toolResults, file, call>>
           \/ /\ content.type = "tool_use"
              /\ \E env \in ToolEnvs(content.name, content.input, file) :
                    LET x == ExecuteTool(content.id, content.name, content.input, file, env)
                    IN  /\ toolResults' = AppendResult(toolResults, x.block)
                        /\ file' = x.file
                        /\ call' = IF x.called THEN x.call ELSE call
                        /\ lastStep' = IF x.called THEN "tool" ELSE "tool_not_found"
    /\ idx' = idx + 1
    /\ UNCHANGED <<conversation, readUserInput, pc, message, runErr>>

\* NextReadUserInput prompting the user after every model message.
NextReadUserInputAlways(results) == TRUE

\* NextReadUserInput never prompting the user again.
NextReadUserInputNever(results) == FALSE

\* Lines 110-114: whether the next round prompts the user.
NextReadUserInput(results) == Len(results) = 0

\* Lines 110-115: after the last block, go round the loop.
EndOfMessage ==
    /\ pc = "blocks"
    /\ idx > Len(message)
    /\ readUserInput' = NextReadUserInput(toolResults)
    /\ IF Len(toolResults) = 0
       THEN /\ UNCHANGED conversation
            /\ lastStep' = "no_tools"
       ELSE /\ conversation' = AppendMessage(conversation, NewUserMessage(toolResults))
            /\ lastStep' = "tool_results"
    /\ pc' = "loop"
    /\ UNCHANGED <<message, idx, toolResults, runErr, file, call>>

Next ==
    \/ GetUserMessage
    \/ Inference
    \/ ProcessBlock
    \/ EndOfMessage

Spec == Init /\ [][Next]_vars


----------------------------------------------------------------------------
(* The tools called on their own: edit_file on every small file and input, *)
(* ripgrep_search on every input and outcome of the process.               *)

AgentIdle ==
    /\ conversation = <<>>
    /\ readUserInput = TRUE
    /\ pc = "tool"
    /\ message = <<>>
    /\ idx = 1
    /\ toolResults = <<>>
    /\ runErr = Nil

EditInputs ==
    {Malformed} \cup
    {RawMessage(TRUE, p, old, new, "", FALSE, 0) :
        p \in {FilePath, MissingPath}, old \in Strings(MaxPat), new \in Strings(MaxPat)}

InitEdit ==
    /\ AgentIdle
    /\ file \in Strings(MaxLen)
    /\ call = NoCall
    /\ lastStep = "start"

\* One call of EditFile, from its entry to its return.
CallEditFile ==
    /\ pc = "tool"
    /\ \E input \in EditInputs :
        \E env \in ToolEnvs("edit_file", input, file) :
            LET r == ToolFunction("edit_file", input, file, env)
            IN  /\ file' = r.file
                /\ call' = Call("edit_file", input, env, file, r)
    /\ pc' = "returned"
    /\ lastStep' = "edit_file"
    /\ UNCHANGED <<conversation, readUserInput, message, idx, toolResults, runErr>>

NextEdit == CallEditFile

SpecEdit == InitEdit /\ [][NextEdit]_vars

SearchInputs ==
    {Malformed} \cup
    {RawMessage(TRUE, p, <<>>, <<>>, "ab", ic, mc) :
        p \in {"", "src"}, ic \in BOOLEAN, mc \in {0, 2}}

InitSearch ==
    /\ AgentIdle
    /\ file = <<"a", "b">>
    /\ call = NoCall
    /\ lastStep = "start"

\* One call of RipGrepSearch, from its entry to its return.
CallRipGrepSearch ==
    /\ pc = "tool"
    /\ \E input \in SearchInputs :
        \E env \in ToolEnvs("ripgrep_search", input, file) :
            LET r == ToolFunction("ripgrep_search", input, file, env)
            IN  /\ file' = r.file
                /\ call' = Call("ripgrep_search", input, env, file, r)
    /\ pc' = "returned"
    /\ lastStep' = "ripgrep_search"
    /\ UNCHANGED <<conversation, readUserInput, message, idx, toolResults, runErr>>

NextSearch == CallRipGrepSearch

SpecSearch == InitSearch /\ [][NextSearch]_vars


----------------------------------------------------------------------------
(* Properties of Agent.Run                                                 *)

Last(seq) == seq[Len(seq)]

\* Run is about to call runInference.
AtInference == pc = "infer" \/ (pc = "loop" /\ ~readUserInput)

\* Message r is the batch of tool results answering the model message m:
\* a user message of one tool_result block per tool_use block of m, in order.
Answers(m, r) ==
    LET uses == ToolUses(m.content)
    IN  /\ r.role = "user"
        /\ Len(r.content) = Len(uses)
        /\ \A i \in 1..Len(uses) :
              /\ r.content[i].type = "tool_result"
              /\ r.content[i].id = uses[i].id

IsToolCalling(m) == m.role = "assistant" /\ ToolUses(m.content) # <<>>
IsPlainReply(m) == m.role = "assistant" /\ ToolUses(m.content) = <<>>
IsToolResults(m) ==
    m.role = "user" /\ \E i \in 1..Len(m.content) : m.content[i].type = "tool_result"

\* C1: every model message with n >= 1 tool-use blocks is followed, before the
\* next inference call, by exactly one user message of n tool-result blocks,
\* the i-th carrying the identifier of the i-th tool-use block; and while the
\* blocks of a message are processed, the results collected so far are those
\* of the tool-use blocks passed so far, in their order (one dispatch a block).
ToolUsesAnsweredInOrder ==
    /\ \A k \in 1..Len(conversation) :
          IsToolCalling(conversation[k]) =>
              IF k = Len(conversation)
              THEN pc = "blocks"
              ELSE /\ Answers(conversation[k], conversation[k + 1])
                   /\ (k + 2 <= Len(conversation) => conversation[k + 2].role = "assistant")
    /\ pc = "blocks" =>
          LET uses == ToolUses(SubSeq(message, 1, idx - 1))
          IN  /\ Len(toolResults) = Len(uses)
              /\ \A i \in 1..Len(uses) : toolResults[i].id = uses[i].id

\* C1 witness: a message of two tool uses with text between them was answered
\* by a batch of two results, and the next inference call was made.
TwoToolUsesAnswered ==
    /\ Len(conversation) >= 4
    /\ Len(conversation[2].content) = 3
    /\ Len(ToolUses(conversation[2].content)) = 2
    /\ conversation[2].content[2].type = "text"
    /\ Len(conversation[3].content) = 2
    /\ conversation[4].role = "assistant"

\* C2: from the top of the loop the next step is a user prompt exactly when
\* the conversation is empty or ends with a model message without tool-use
\* blocks, and an inference call when it ends with a batch of tool results;
\* so the user is prompted only after a model message without tool-use blocks.
TransitionRule ==
    [][ /\ pc = "loop" =>
            IF conversation = <<>> \/ IsPlainReply(Last(conversation))
            THEN lastStep' \in {"prompt", "end_of_input"}
            ELSE /\ IsToolResults(Last(conversation))
                 /\ IsToolCalling(conversation[Len(conversation) - 1])
                 /\ lastStep' \in {"inference", "inference_failed"}
        /\ lastStep' \in {"prompt", "end_of_input"} =>
            (conversation = <<>> \/ IsPlainReply(Last(conversation)))
      ]_vars

\* C2 witness: two tool-calling messages were answered without a prompt between.
InferenceAfterToolResults ==
    /\ lastStep = "inference"
    /\ Len(conversation) = 4
    /\ IsToolCalling(conversation[2])
    /\ IsToolResults(conversation[3])

\* C3: dispatching a tool use whose name is not registered calls no tool
\* function and yields an error result saying "tool not found"; dispatching a
\* registered tool whose function fails yields an error result with the
\* failure's text; either way Run goes on with the message, returns no error,
\* appends the batch of results and calls the model again.
ToolFailuresAreResults ==
    [][ /\ (pc = "blocks" /\ idx <= Len(message) /\ message[idx].type = "tool_use") =>
            LET use == message[idx]
                res == Last(toolResults')
            IN  /\ Len(toolResults') = Len(toolResults) + 1
                /\ pc' = "blocks"
                /\ runErr' = Nil
                /\ res.type = "tool_result"
                /\ IF use.name \notin {GetTools[i] : i \in 1..Len(GetTools)}
                   THEN /\ res.is_error
                        /\ res.content = Content(Text("tool not found"), Nil)
                        /\ lastStep' = "tool_not_found"
                        /\ call' = call
                        /\ file' = file
                   ELSE /\ lastStep' = "tool"
                        /\ call'.tool = use.name /\ call'.input = use.input
                        /\ call'.before = file
                        /\ IF call'.err # Nil
                           THEN res.is_error /\ res.content = Content(<<>>, call'.err)
                           ELSE ~res.is_error /\ res.content = Content(call'.response, Nil)
        /\ (pc = "blocks" /\ idx > Len(message) /\ toolResults # <<>>) =>
            /\ conversation' = Append(conversation, [role |-> "user", content |-> toolResults])
            /\ pc' = "loop"
            /\ ~readUserInput'
            /\ runErr' = Nil
      ]_vars

\* C3 witness: a batch holding the result of an unknown tool and the result of
\* a failed tool function was appended, and the model was called again.
FailuresFoldedAndRunContinued ==
    /\ Len(conversation) >= 4
    /\ IsToolResults(conversation[3])
    /\ \E i, j \in 1..Len(conversation[3].content) :
          /\ conversation[3].content[i].is_error
          /\ conversation[3].content[i].content.text = Text("tool not found")
          /\ conversation[3].content[j].is_error
          /\ conversation[3].content[j].content.err # Nil
    /\ conversation[4].role = "assistant"

\* C4: a failed inference call makes Run return an error at once: nothing
\* happens after Run has returned, Run has returned whenever the last
\* inference call failed, and Run returns an error only then.
InferenceFailureAborts ==
    /\ [](lastStep = "inference_failed" => pc = "returned" /\ runErr # Nil)
    /\ [](runErr # Nil => lastStep = "inference_failed" /\ runErr.cause = ApiError.msg)
    /\ [][pc # "returned"]_vars

\* C4 witness: the second inference call of a run failed.
SecondInferenceFailed ==
    /\ lastStep = "inference_failed"
    /\ pc = "returned"
    /\ InferenceCalls(conversation) = 1

\* C5: at the end of the input Run returns nil, appends no message, and
\* takes no step afterwards.
EndOfInputReturnsNil ==
    /\ [][lastStep' = "end_of_input" =>
            /\ pc = "loop" /\ readUserInput
            /\ pc' = "returned"
            /\ runErr' = Nil
            /\ conversation' = conversation]_vars
    /\ [][lastStep # "end_of_input"]_vars

\* C5 witness: the input ended after a full turn.
EndOfInputAfterTurn ==
    /\ lastStep = "end_of_input"
    /\ pc = "returned"
    /\ runErr = Nil
    /\ Len(conversation) >= 2

\* C6: every step leaves the conversation as it was or appends one message to it.
AppendOnly ==
    [][ /\ Len(conversation') \in {Len(conversation), Len(conversation) + 1}
        /\ SubSeq(conversation', 1, Len(conversation)) = conversation ]_vars

\* C6 witness: a conversation of four messages, tool results among them.
FourMessages ==
    /\ Len(conversation) = 4
    /\ IsToolResults(conversation[3])

\* C10: the roles alternate user, assistant, ... from a user message; an
\* inference call is made with a non-empty conversation ending in a user
\* message; a message of tool results comes right after the model message
\* whose tool-use blocks it answers.
RolesAlternate ==
    /\ \A k \in 1..Len(conversation) :
          /\ conversation[k].role = (IF k % 2 = 1 THEN "user" ELSE "assistant")
          /\ IsToolResults(conversation[k]) =>
                /\ k > 1
                /\ IsToolCalling(conversation[k - 1])
                /\ Answers(conversation[k - 1], conversation[k])
    /\ AtInference => conversation # <<>> /\ Last(conversation).role = "user"

\* C10 witness: an inference call is due on a batch of tool results.
InferenceDueOnToolResults ==
    /\ AtInference
    /\ Len(conversation) = 3
    /\ IsToolResults(conversation[3])


----------------------------------------------------------------------------
(* Properties of edit_file                                                 *)

\* A call of edit_file with a payload that decodes, on the file that exists.
EditCalled == call.tool = "edit_file" /\ call.input.valid /\ call.input.path = FilePath

\* s with its first occurrence of old replaced by new, every other byte kept.
FirstReplaced(s, old, new) ==
    LET i == CHOOSE k \in 1..(Len(s) + 1) :
                /\ OccursAt(s, old, k)
                /\ \A j \in 1..(k - 1) : ~OccursAt(s, old, j)
    IN  [k \in 1..(Len(s) - Len(old) + Len(new)) |->
            IF k < i THEN s[k]
            ELSE IF k < i + Len(new) THEN new[k - i + 1]
            ELSE s[k - Len(new) + Len(old)]]

IsPrefix(p, s) == Len(p) <= Len(s) /\ SubSeq(s, 1, Len(p)) = p

WriteFailed == call.err.msg = "failed to write changes to file '%s': %w"

\* C7 as claimed: when old_str does not occur in the file the call fails and
\* the file is unchanged, and every failing call leaves the file unchanged.
FailedEditLeavesFile ==
    call.tool = "edit_file" =>
        /\ (EditCalled /\ call.env.fs.rd /\ ~Contains(call.before, call.input.old_str)) =>
                call.err # Nil /\ call.after = call.before
        /\ call.err # Nil => call.after = call.before

\* C7 as amended: when old_str does not occur in the file the call fails and
\* the file is unchanged; every call that fails before it writes (payload not
\* decoded, file not read, content not changed by the replacement) leaves the
\* file unchanged; a call that fails writing leaves the file unchanged or
\* holding a prefix of the new content.
FailedEditBeforeWriteLeavesFile ==
    call.tool = "edit_file" =>
        /\ (EditCalled /\ call.env.fs.rd /\ ~Contains(call.before, call.input.old_str)) =>
                call.err # Nil /\ call.after = call.before
        /\ (call.err # Nil /\ ~WriteFailed) => call.after = call.before
        /\ (call.err # Nil /\ WriteFailed) =>
                \/ call.after = call.before
                \/ IsPrefix(call.after,
                            Replace(call.before, call.input.old_str, call.input.new_str, 1))

\* C7 witness: a call on a non-empty file that does not hold old_str has failed.
EditOfAbsentStringFailed ==
    /\ EditCalled
    /\ call.env.fs.rd
    /\ call.before # <<>>
    /\ call.input.old_str # <<>>
    /\ ~Contains(call.before, call.input.old_str)
    /\ call.err # Nil

\* C8: whenever a non-empty old_str occurs in the file and the file is read and written,
\* the call succeeds and leaves the content with the first occurrence of
\* old_str replaced by new_str and every other byte as it was; a call with a
\* decoded payload fails only when old_str does not occur or the file is not
\* read or not written.
EditReplacesFirstOccurrence ==
    EditCalled =>
        /\ (call.env.fs.rd /\ call.env.fs.wr = "ok"
              /\ call.input.old_str # <<>>
              /\ Contains(call.before, call.input.old_str)) =>
                /\ call.err = Nil
                /\ call.after = FirstReplaced(call.before, call.input.old_str,
                                              call.input.new_str)
        /\ call.err # Nil =>
                \/ ~Contains(call.before, call.input.old_str)
                \/ ~call.env.fs.rd
                \/ call.env.fs.wr # "ok"

----------------------------------------------------------------------------
(* Properties of ripgrep_search                                            *)

SearchCalled == call.tool = "ripgrep_search" /\ call.input.valid

NoMatches == call.err = Nil /\ call.response = Text("No matches found.")

\* The part of C9 that both statements share: exit status 1 is a success
\* saying "no matches"; every other non-zero exit status is a failure that
\* carries the status and the standard error; a process that did not start is
\* a failure.
SearchFailureMapping ==
    /\ (call.env.proc.started /\ call.env.proc.code = NoMatchExit) => NoMatches
    /\ (call.env.proc.started /\ call.env.proc.code \notin {0, NoMatchExit}) =>
            /\ call.err # Nil
            /\ call.err.code = call.env.proc.code
            /\ call.err.cause = call.env.proc.stderr
    /\ ~call.env.proc.started => call.err # Nil

\* C9 as claimed: besides, a zero exit is a success carrying the matched
\* lines, and no exit status other than 1 gives the "no matches" success.
SearchExitMapping ==
    SearchCalled =>
        /\ SearchFailureMapping
        /\ (call.env.proc.started /\ call.env.proc.code = 0) =>
                call.err = Nil /\ call.response = call.env.proc.out
        /\ NoMatches => call.env.proc.started /\ call.env.proc.code = NoMatchExit

\* C9 as amended: besides, a zero exit is a success carrying the output of
\* the process, or the "no matches" text when that output is empty; and the
\* "no matches" success comes of exit status 1 or of a zero exit with empty
\* output, of no other exit status.
SearchExitMappingEmptyOutput ==
    SearchCalled =>
        /\ SearchFailureMapping
        /\ (call.env.proc.started /\ call.env.proc.code = 0) =>
                /\ call.err = Nil
                /\ call.response = (IF call.env.proc.out = <<>>
                                    THEN Text("No matches found.")
                                    ELSE call.env.proc.out)
        /\ NoMatches =>
                /\ call.env.proc.started
                /\ \/ call.env.proc.code = NoMatchExit
                   \/ call.env.proc.code = 0 /\ call.env.proc.out = <<>>

\* C9 witness: the process exited with status 1 having written to its
\* standard error, and the call returned the "no matches" success.
SearchExitOneIsNoMatches ==
    /\ SearchCalled
    /\ call.env.proc.started
    /\ call.env.proc.code = NoMatchExit
    /\ call.env.proc.stderr # ""
    /\ NoMatches


====
